---- MODULE Spec2Model ----
(***************************************************************************)
(* A model of sequelizeQueryParser.js: parse(req) translates the query     *)
(* parameters of a request into a Sequelize query object (dbQuery).        *)
(*                                                                         *)
(* Strings that the code takes apart (split, parseInt, JSON.parse) are     *)
(* sequences of units; a unit is a piece of text that holds no delimiter   *)
(* inside it (one character such as ":" or "7", or a run such as "gt").    *)
(* Strings that the code only stores or compares are TLA+ strings, made    *)
(* from unit sequences by Join.                                            *)
(***************************************************************************)
EXTENDS Integers, Sequences, FiniteSets, TLC

VARIABLES
    pc,       \* "loop": inside for (const key in req.query); "resolved"; "rejected"
    req,      \* req.query restricted to the keys the loop has visited so far
    key,      \* the loop variable: the key visited last (NoKey before the first)
    offset,   \* let offset  (page index)
    limit,    \* let limit   (page size)
    dbQuery,  \* const dbQuery
    settled,  \* what the promise was settled with, in order: resolve/reject calls
    log       \* the calls of parse before this one, in order: the req.query of
              \* each, the key its loop visited last, what its promise was settled with

vars == <<pc, req, key, offset, limit, dbQuery, settled, log>>

-----------------------------------------------------------------------------
(* Bounds of the model *)

\* how many parameters one request holds at most
MaxParams == 3
\* how far the page sizes and page indices tried reach beyond the limits 1, 200 and 0
MaxOver == 2
\* the longest text tried after the head of a simple filter value
MaxTail == 4
\* how deep the objects of the JSON values tried as query nest
MaxDepth == 2
\* how deep the include trees tried nest
MaxNest == 2
\* how many calls of parse follow one another
MaxCalls == 3
\* the longest sort_by text tried
MaxField == 3

-----------------------------------------------------------------------------
(* JavaScript values *)

Undefined == [t |-> "undefined"]
Null == [t |-> "null"]
NaN == [t |-> "number", nan |-> TRUE, n |-> 0]
Number(n) == [t |-> "number", nan |-> FALSE, n |-> n]
Bool(b) == [t |-> "boolean", b |-> b]
\* a string value; s is a TLA+ string
Str(s) == [t |-> "string", s |-> s]
\* an Array; el is the sequence of its elements
Arr(el) == [t |-> "array", el |-> el]
\* an ordinary object; kv is the sequence of its own <<key, value>> properties
\* in creation order, a key being StrKey(s) or SymKey(name)
Obj(kv) == [t |-> "object", kv |-> kv]
\* Op.<name>: the Symbol the storage engine supplies for an operator
Symbol(name) == [t |-> "symbol", name |-> name]
\* a built-in function, such as Object.prototype.toString
Function(name) == [t |-> "function", name |-> name]
\* Object.prototype itself
ObjectPrototype == [t |-> "prototype"]
\* a member of db: a registered model, or db.Sequelize
DbMember(name) == [t |-> "db", name |-> name]

StrKey(s) == <<"string", s>>
SymKey(name) == <<"symbol", name>>

\* a parameter value as the HTTP layer delivers it: one string (a unit
\* sequence), or the array of strings of a repeated parameter
StringParam(text) == [t |-> "string", text |-> text]
ArrayParam(items) == [t |-> "array", items |-> items]

-----------------------------------------------------------------------------
(* Text *)

LineTerminators == {"\n", "\r"}
WhiteSpace == {" ", "\t", "\n", "\r"}
Digits == {"0", "1", "2", "3", "4", "5", "6", "7", "8", "9"}

DigitValue(d) ==
    CASE d = "0" -> 0 [] d = "1" -> 1 [] d = "2" -> 2 [] d = "3" -> 3
      [] d = "4" -> 4 [] d = "5" -> 5 [] d = "6" -> 6 [] d = "7" -> 7
      [] d = "8" -> 8 [] d = "9" -> 9

DigitUnit(n) ==
    CASE n = 0 -> "0" [] n = 1 -> "1" [] n = 2 -> "2" [] n = 3 -> "3"
      [] n = 4 -> "4" [] n = 5 -> "5" [] n = 6 -> "6" [] n = 7 -> "7"
      [] n = 8 -> "8" [] n = 9 -> "9"

\* F(e), F(a, b) and F(a, b, c) with each argument evaluated once, before F
\* uses it, however often F does
Once(e, F(_)) == CHOOSE r \in {F(x) : x \in {e}} : TRUE
Once2(a, b, F(_, _)) == CHOOSE r \in {F(x, y) : x \in {a}, y \in {b}} : TRUE
Once3(a, b, c, F(_, _, _)) ==
    CHOOSE r \in {F(x, y, z) : x \in {a}, y \in {b}, z \in {c}} : TRUE

\* the string a unit sequence spells
RECURSIVE Join(_)
Join(text) == IF text = <<>> THEN "" ELSE Head(text) \o Join(Tail(text))

\* the position of the first unit of text that is in set, 0 if none
FirstIn(text, set) ==
    IF \E i \in 1..Len(text) : text[i] \in set
    THEN CHOOSE i \in 1..Len(text) :
             text[i] \in set /\ \A j \in 1..(i - 1) : text[j] \notin set
    ELSE 0

From(text, i) == SubSeq(text, i, Len(text))

\* String.prototype.split(sep) with a one-character separator
RECURSIVE split(_, _)
split(string, sep) ==
    Once2(string, FirstIn(string, {sep}), LAMBDA text, i :
        IF i = 0 THEN <<text>>
        ELSE <<SubSeq(text, 1, i - 1)>> \o split(From(text, i + 1), sep))

\* Array.prototype.toString: the elements joined with ","
RECURSIVE arrayToString(_)
arrayToString(items) ==
    IF items = <<>> THEN <<>>
    ELSE IF Len(items) = 1 THEN items[1]
    ELSE items[1] \o <<",">> \o arrayToString(Tail(items))

\* value.toString() of a parameter value
toString(value) ==
    IF value.t = "array" THEN arrayToString(value.items) ELSE value.text

-----------------------------------------------------------------------------
(* Numbers *)

HexDigits == Digits \cup {"a", "b", "c", "d", "e", "f", "A", "B", "C", "D", "E", "F"}

HexValue(d) ==
    CASE d \in Digits -> DigitValue(d)
      [] d \in {"a", "A"} -> 10 [] d \in {"b", "B"} -> 11 [] d \in {"c", "C"} -> 12
      [] d \in {"d", "D"} -> 13 [] d \in {"e", "E"} -> 14 [] d \in {"f", "F"} -> 15

\* the longest prefix of text whose units are all in set
LeadingRun(text, set) ==
    LET i == FirstIn(text, {text[j] : j \in 1..Len(text)} \ set)
    IN IF i = 0 THEN text ELSE SubSeq(text, 1, i - 1)

\* the number the digits spell in the radix, most significant first
RECURSIVE RadixValue(_, _)
RadixValue(digits, radix) ==
    IF digits = <<>> THEN 0
    ELSE RadixValue(SubSeq(digits, 1, Len(digits) - 1), radix) * radix
         + HexValue(digits[Len(digits)])

\* the decimal digits of n >= 0
RECURSIVE DecimalDigits(_)
DecimalDigits(n) ==
    IF n < 10 THEN <<DigitUnit(n)>> ELSE DecimalDigits(n \div 10) \o <<DigitUnit(n % 10)>>

\* String(n) of an integer
NumberToText(n) == IF n < 0 THEN <<"-">> \o DecimalDigits(-n) ELSE DecimalDigits(n)

\* parseInt(string) without a radix: leading white space skipped, an optional
\* sign, an optional 0x prefix, then the longest run of digits; NaN if that is empty
parseIntText(text) ==
    LET s == From(text, Len(LeadingRun(text, WhiteSpace)) + 1)
        signed == s /= <<>> /\ s[1] \in {"-", "+"}
        sign == IF s /= <<>> /\ s[1] = "-" THEN -1 ELSE 1
        body == IF signed THEN Tail(s) ELSE s
        hex == Len(body) >= 2 /\ body[1] = "0" /\ body[2] \in {"x", "X"}
        run == IF hex THEN LeadingRun(From(body, 3), HexDigits)
               ELSE LeadingRun(body, Digits)
    IN IF run = <<>> THEN NaN
       ELSE Number(sign * RadixValue(run, IF hex THEN 16 ELSE 10))

\* a parseInt that gives 0 where parseInt gives NaN
parseIntOrZero(value) ==
    IF parseIntText(toString(value)).nan THEN Number(0) ELSE parseIntText(toString(value))

\* parseInt(value): the argument is converted to a string first
parseInt(value) == parseIntText(toString(value))

\* Math.max and Math.min of two numbers: NaN if either is NaN
MathMax(a, b) ==
    IF a.nan \/ b.nan THEN NaN ELSE IF a.n >= b.n THEN a ELSE b

MathMin(a, b) ==
    IF a.nan \/ b.nan THEN NaN ELSE IF a.n <= b.n THEN a ELSE b

\* a * b
Times(a, b) == IF a.nan \/ b.nan THEN NaN ELSE Number(a.n * b.n)

-----------------------------------------------------------------------------
(* The operator table and property lookup *)

OperatorNames ==
    {"gt", "gte", "lt", "lte", "ne", "eq", "not", "like", "notLike", "regexp",
     "notRegexp", "and", "or", "between", "notBetween", "in", "notIn"}

\* the properties every ordinary object inherits from Object.prototype
ObjectPrototypeNames ==
    {"constructor", "hasOwnProperty", "isPrototypeOf", "propertyIsEnumerable",
     "toLocaleString", "toString", "valueOf", "__defineGetter__",
     "__defineSetter__", "__lookupGetter__", "__lookupSetter__", "__proto__"}

\* obj[name] for a name obj does not own: the inherited property, or undefined
Inherited(name) ==
    IF name = "__proto__" THEN ObjectPrototype
    ELSE IF name = "constructor" THEN Function("Object")
    ELSE IF name \in ObjectPrototypeNames THEN Function(name)
    ELSE Undefined

\* operators[name]; operators is an object literal with the 17 operator names
operators(name) ==
    IF name \in OperatorNames THEN Symbol(name) ELSE Inherited(name)

\* the property key a value used in obj[value] stands for
ToPropertyKey(v) ==
    CASE v.t = "symbol" -> SymKey(v.name)
      [] v.t = "string" -> StrKey(v.s)
      [] v.t = "undefined" -> StrKey("undefined")
      [] v.t = "null" -> StrKey("null")
      [] v.t = "function" -> StrKey("function " \o v.name \o "() { [native code] }")
      [] v.t = "prototype" -> StrKey("[object Object]")

\* if (v)
Truthy(v) ==
    CASE v.t \in {"undefined", "null"} -> FALSE
      [] v.t = "string" -> v.s /= ""
      [] v.t = "number" -> ~v.nan /\ v.n /= 0
      [] v.t = "boolean" -> v.b
      [] OTHER -> TRUE

\* an exception thrown inside the try block
Throw(message) == [t |-> "throw", message |-> message]

-----------------------------------------------------------------------------
(* Field lists: fields, sort_by, group_by *)

\* the array of the strings the texts spell
StrArray(texts) == Arr([i \in 1..Len(texts) |-> Str(Join(texts[i]))])

\* splitStringAndBuildArray(obj, array): the elements of array after the call
RECURSIVE PushFields(_, _)
PushFields(elements, array) ==
    IF elements = <<>> THEN array
    ELSE LET fields == split(Head(elements), ".")
         IN PushFields(Tail(elements),
                       IF Len(fields) > 0 THEN Append(array, StrArray(fields)) ELSE array)

\* the tokens pushed whole, not split on "."
pushTokensUnsplit(obj, array) ==
    LET elements == split(obj, ",")
    IN array \o [i \in 1..Len(elements) |-> StrArray(<<elements[i]>>)]

splitStringAndBuildArray(obj, array) == PushFields(split(obj, ","), array)

RECURSIVE ForEachSplit(_, _)
ForEachSplit(items, array) ==
    IF items = <<>> THEN array
    ELSE ForEachSplit(Tail(items), splitStringAndBuildArray(Head(items), array))

\* parseFields(query)
parseFields(query) ==
    IF query.t = "array" THEN Arr(ForEachSplit(query.items, <<>>))
    ELSE Arr(splitStringAndBuildArray(query.text, <<>>))

-----------------------------------------------------------------------------
(* Simple filters *)

\* the first ":" of text that a character other than a line terminator follows
\* (where /:(.+)/ first matches), 0 if none
ColonMatch(text) ==
    LET hit(i) == text[i] = ":" /\ text[i + 1] \notin LineTerminators
    IN IF \E i \in 1..(Len(text) - 1) : hit(i)
       THEN CHOOSE i \in 1..(Len(text) - 1) : hit(i) /\ \A j \in 1..(i - 1) : ~hit(j)
       ELSE 0

\* where the match that starts at i ends: (.+) is greedy and stops before a
\* line terminator
MatchEnd(text, i) ==
    LET k == FirstIn(From(text, i + 1), LineTerminators)
    IN IF k = 0 THEN Len(text) ELSE i + k - 1

\* query.split(/:(.+)/): the pieces between the matches, each match's capture
\* spliced in after the piece before it
RECURSIVE splitColonRegExp(_)
splitColonRegExp(string) ==
    Once2(string, ColonMatch(string), LAMBDA text, i :
        IF i = 0 THEN <<text>>
        ELSE <<SubSeq(text, 1, i - 1), SubSeq(text, i + 1, MatchEnd(text, i))>>
             \o splitColonRegExp(From(text, MatchEnd(text, i) + 1)))

\* parseQueryParam(query)
parseQueryParam(query) ==
    IF query.t = "array" THEN Throw("query.split is not a function")
    ELSE LET elements == splitColonRegExp(query.text)
         IN IF Len(elements) > 1
            THEN LET elementsArray == split(elements[2], ",")
                 IN Obj(<< <<ToPropertyKey(operators(Join(elements[1]))),
                             IF Len(elementsArray) > 1 THEN StrArray(elementsArray)
                             ELSE Str(Join(elementsArray[1]))>> >>)
            ELSE Str(Join(elements[1]))

-----------------------------------------------------------------------------
(* Objects *)

\* whether obj owns a property with key k
Has(obj, k) == \E i \in 1..Len(obj.kv) : obj.kv[i][1] = k

\* obj[k] of an object for an own key k
Get(obj, k) == obj.kv[CHOOSE i \in 1..Len(obj.kv) : obj.kv[i][1] = k][2]

\* obj[k] = v: an own property keeps its place, a new one is added last
Set(obj, k, v) ==
    IF Has(obj, k)
    THEN Obj([i \in 1..Len(obj.kv) |->
                 IF obj.kv[i][1] = k THEN <<k, v>> ELSE obj.kv[i]])
    ELSE Obj(Append(obj.kv, <<k, v>>))

\* delete obj[k]
Delete(obj, k) == Obj(SelectSeq(obj.kv, LAMBDA p : p[1] /= k))

\* the string keys of an object, in order (Object.keys leaves symbols out)
StringKeys(obj) ==
    LET strs == SelectSeq(obj.kv, LAMBDA p : p[1][1] = "string")
    IN [i \in 1..Len(strs) |-> strs[i][1][2]]

\* the index i of an array as the property name Object.keys gives, "0", "1", ...
IndexName(i) == Join(DecimalDigits(i))

\* { ...a, ...b } for objects a and b: the properties of a, then those of b
RECURSIVE Spread(_, _)
Spread(a, kv) ==
    Once2(a, kv, LAMBDA obj, rest :
        IF rest = <<>> THEN obj
        ELSE Spread(Set(obj, Head(rest)[1], Head(rest)[2]), Tail(rest)))

\* the own enumerable properties a value contributes to an object spread
OwnProperties(v) ==
    CASE v.t = "object" -> v.kv
      [] v.t = "array" ->
            [i \in 1..Len(v.el) |-> <<StrKey(IndexName(i - 1)), v.el[i]>>]
      [] OTHER -> <<>>   \* a number, a boolean, null; no string is spread here

-----------------------------------------------------------------------------
(* db, the object the module is constructed with *)

\* the models registered on db
ModelNames == {"UserRole", "Role"}

\* db[name]: a model, db.Sequelize (which the module reads Op from), or
\* what db inherits as an ordinary object
db(name) ==
    IF name \in ModelNames \cup {"Sequelize"} THEN DbMember(name)
    ELSE Inherited(name)

\* String(v) of a scalar used as a property name
ScalarName(v) ==
    CASE v.t = "string" -> v.s
      [] v.t = "number" -> IF v.nan THEN "NaN" ELSE Join(NumberToText(v.n))
      [] v.t = "boolean" -> IF v.b THEN "true" ELSE "false"
      [] v.t = "null" -> "null"
      [] OTHER -> "undefined"

-----------------------------------------------------------------------------
(* The rewrite of operator names: replaceKeyWithOperator, iterativeReplace *)

\* typeof v === 'object' && v !== null
IsObject(v) == v.t \in {"object", "array"}

\* replaceKeyWithOperator without its delete: the value is added under
\* the operator and stays under the name too
addOperatorKey(json, k, op) ==
    Set(json, ToPropertyKey(op), Get(json, StrKey(k)))

\* replaceKeyWithOperator(json, key, op): json after the call
replaceKeyWithOperator(json, k, op) ==
    Set(Delete(json, StrKey(k)), ToPropertyKey(op), Get(json, StrKey(k)))

\* iterativeReplace(json): json after the call. Object.keys(json) is taken
\* once, before the walk; each key is then looked up in json as it is by then.
RECURSIVE iterativeReplace(_)
RECURSIVE ForEachKey(_, _)
RECURSIVE ForEachIndex(_, _)
ForEachKey(object, keys) ==
    Once2(object, keys, LAMBDA json, rest :
        IF rest = <<>> THEN json
        ELSE Once3(Head(rest), Get(json, StrKey(Head(rest))), operators(Head(rest)),
                   LAMBDA k, value, op :
             ForEachKey(
                 IF IsObject(value)
                 THEN IF Truthy(op)
                      THEN Set(replaceKeyWithOperator(json, k, op), ToPropertyKey(op),
                               iterativeReplace(value))
                      ELSE Set(json, StrKey(k), iterativeReplace(value))
                 ELSE IF k = "model" /\ db(ScalarName(value)).t \notin {"undefined", "null"}
                 THEN Set(json, StrKey("model"), db(ScalarName(value)))
                 ELSE IF Truthy(op)
                 THEN replaceKeyWithOperator(json, k, op)
                 ELSE json,
                 Tail(rest))))

\* the walk over an array: its keys are its indices, which name no operator
ForEachIndex(array, i) ==
    Once(array, LAMBDA el :
        IF i > Len(el) THEN el
        ELSE ForEachIndex([el EXCEPT ![i] = IF IsObject(el[i]) THEN iterativeReplace(el[i])
                                            ELSE el[i]],
                          i + 1))

iterativeReplace(value) ==
    Once(value, LAMBDA json :
        CASE json.t = "object" -> ForEachKey(json, StringKeys(json))
          [] json.t = "array" -> Arr(ForEachIndex(json.el, 1))
          [] json.t \in {"null", "undefined"} ->
                Throw("Cannot convert undefined or null to object")
          [] OTHER -> json)

-----------------------------------------------------------------------------
(* unescape and JSON.parse *)

\* unescape of one unit: a %XX sequence becomes the character it encodes
UnescapeUnit(u) ==
    CASE u = "%7B" -> "{" [] u = "%7D" -> "}" [] u = "%5B" -> "[" [] u = "%5D" -> "]"
      [] u = "%22" -> "\"" [] u = "%3A" -> ":" [] u = "%2C" -> "," [] u = "%20" -> " "
      [] OTHER -> u

\* unescapeEscapedQuery(query)
unescapeEscapedQuery(query) ==
    LET queryString == toString(query)
    IN [i \in 1..Len(queryString) |-> UnescapeUnit(queryString[i])]

JsonDelimiters == {"{", "}", "[", "]", ":", ",", "\""} \cup WhiteSpace

Parsed(value, next) == [ok |-> TRUE, value |-> value, next |-> next]
SyntaxError(text, i) ==
    [ok |-> FALSE,
     message |-> IF i > Len(text) THEN "Unexpected end of JSON input"
                 ELSE "Unexpected token " \o text[i] \o " in JSON"]

\* the first position from i on that holds no white space
SkipWhiteSpace(text, i) == i + Len(LeadingRun(From(text, i), WhiteSpace))

\* a JSON string whose opening quote is at i
JsonString(text, i) ==
    LET k == FirstIn(From(text, i + 1), {"\""} \cup LineTerminators)
    IN IF k = 0 THEN SyntaxError(text, Len(text) + 1)
       ELSE IF text[i + k] /= "\"" THEN SyntaxError(text, i + k)
       ELSE Parsed(Str(Join(SubSeq(text, i + 1, i + k - 1))), i + k + 1)

\* a JSON number that starts at i: an optional "-", then digits with no
\* needless leading zero (fractions and exponents are not modelled)
JsonNumber(text, i) ==
    LET neg == text[i] = "-"
        at == IF neg THEN i + 1 ELSE i
        run == LeadingRun(From(text, at), Digits)
    IN IF run = <<>> THEN SyntaxError(text, at)
       ELSE IF Len(run) > 1 /\ run[1] = "0" THEN SyntaxError(text, at + 1)
       ELSE Parsed(Number((IF neg THEN -1 ELSE 1) * RadixValue(run, 10)), at + Len(run))

\* true, false or null starting at i
JsonLiteral(text, i) ==
    LET rest == From(text, i)
        word == LeadingRun(rest, {rest[j] : j \in 1..Len(rest)} \ JsonDelimiters)
        name == Join(word)
    IN IF name = "null" THEN Parsed(Null, i + Len(word))
       ELSE IF name = "true" THEN Parsed(Bool(TRUE), i + Len(word))
       ELSE IF name = "false" THEN Parsed(Bool(FALSE), i + Len(word))
       ELSE SyntaxError(text, i)

RECURSIVE JsonValue(_, _)
RECURSIVE JsonMembers(_, _, _)
RECURSIVE JsonElements(_, _, _)

\* the members of an object from i on, obj being the members read so far; a
\* repeated name overwrites the earlier member
JsonMembers(text, i, obj) ==
    LET a == SkipWhiteSpace(text, i)
        name == JsonString(text, a)
        c == SkipWhiteSpace(text, name.next)
    IN IF a > Len(text) \/ text[a] /= "\"" THEN SyntaxError(text, a)
       ELSE IF ~name.ok THEN name
       ELSE IF c > Len(text) \/ text[c] /= ":" THEN SyntaxError(text, c)
       ELSE Once(JsonValue(text, c + 1), LAMBDA v :
                IF ~v.ok THEN v
                ELSE LET d == SkipWhiteSpace(text, v.next)
                         o == Set(obj, StrKey(name.value.s), v.value)
                     IN IF d > Len(text) THEN SyntaxError(text, d)
                        ELSE IF text[d] = "}" THEN Parsed(o, d + 1)
                        ELSE IF text[d] = "," THEN JsonMembers(text, d + 1, o)
                        ELSE SyntaxError(text, d))

\* the elements of an array from i on, el being the elements read so far
JsonElements(text, i, el) ==
    Once(JsonValue(text, i), LAMBDA v :
        IF ~v.ok THEN v
        ELSE LET d == SkipWhiteSpace(text, v.next)
                 all == Append(el, v.value)
             IN IF d > Len(text) THEN SyntaxError(text, d)
                ELSE IF text[d] = "]" THEN Parsed(Arr(all), d + 1)
                ELSE IF text[d] = "," THEN JsonElements(text, d + 1, all)
                ELSE SyntaxError(text, d))

\* the JSON value that starts at or after i
JsonValue(text, i) ==
    LET a == SkipWhiteSpace(text, i)
        b == SkipWhiteSpace(text, a + 1)
    IN IF a > Len(text) THEN SyntaxError(text, a)
       ELSE IF text[a] = "{"
       THEN IF b <= Len(text) /\ text[b] = "}" THEN Parsed(Obj(<<>>), b + 1)
            ELSE JsonMembers(text, a + 1, Obj(<<>>))
       ELSE IF text[a] = "["
       THEN IF b <= Len(text) /\ text[b] = "]" THEN Parsed(Arr(<<>>), b + 1)
            ELSE JsonElements(text, a + 1, <<>>)
       ELSE IF text[a] = "\"" THEN JsonString(text, a)
       ELSE IF text[a] \in Digits \cup {"-"} THEN JsonNumber(text, a)
       ELSE JsonLiteral(text, a)

\* JSON.parse(text): the value, or the SyntaxError thrown
JSONparse(string) ==
    Once2(string, JsonValue(string, 1), LAMBDA text, v :
        IF ~v.ok THEN Throw(v.message)
        ELSE LET e == SkipWhiteSpace(text, v.next)
             IN IF e <= Len(text) THEN Throw(SyntaxError(text, e).message)
                ELSE v.value)

\* parseQueryFields(query), and parseIncludeFields(query), which has the same body
parseQueryFields(query) ==
    Once(JSONparse(unescapeEscapedQuery(query)), LAMBDA json :
        IF json.t = "throw" THEN json ELSE iterativeReplace(json))

parseIncludeFields(query) ==
    Once(JSONparse(unescapeEscapedQuery(query)), LAMBDA json :
        IF json.t = "throw" THEN json ELSE iterativeReplace(json))

\* JSON.stringify of a value JSON.parse can give, without white space
RECURSIVE stringify(_)
RECURSIVE StringifyAll(_, _)
StringifyAll(v, i) ==
    LET n == IF v.t = "object" THEN Len(v.kv) ELSE Len(v.el)
        item == IF v.t = "object"
                THEN <<"\"", v.kv[i][1][2], "\"", ":">> \o stringify(v.kv[i][2])
                ELSE stringify(v.el[i])
    IN IF i > n THEN <<>>
       ELSE item \o (IF i < n THEN <<",">> ELSE <<>>) \o StringifyAll(v, i + 1)

stringify(v) ==
    CASE v.t = "object" -> <<"{">> \o StringifyAll(v, 1) \o <<"}">>
      [] v.t = "array" -> <<"[">> \o StringifyAll(v, 1) \o <<"]">>
      [] v.t = "string" -> <<"\"", v.s, "\"">>
      [] v.t = "number" -> NumberToText(v.n)
      [] v.t = "boolean" -> IF v.b THEN <<"true">> ELSE <<"false">>
      [] v.t = "null" -> <<"null">>

-----------------------------------------------------------------------------
(* parse(req) *)

\* Max page size limit is set to 200
pageSizeLimit == 200

\* the parameter names the switch has a case for
ReservedKeys == {"fields", "limit", "offset", "sort_by", "group_by", "query", "include"}

\* the value of key before the loop has visited any key
NoKey == ""

\* a record with field name set to v, added if it has none
Put(rec, name, v) ==
    [n \in DOMAIN rec \cup {name} |-> IF n = name THEN v ELSE rec[n]]

\* the descriptor as it was created before offset and limit were put in it
NewQueryWhereOnly(o, l) == [n \in {"where"} |-> Obj(<<>>)]

\* const dbQuery = { where: {}, offset, limit }
NewQuery(o, l) ==
    [n \in {"where", "offset", "limit"} |->
        CASE n = "where" -> Obj(<<>>) [] n = "offset" -> o [] n = "limit" -> l]

Init ==
    /\ pc = "loop"
    /\ req = [query |-> <<>>]
    /\ key = NoKey
    /\ offset = Number(0)
    /\ limit = Number(pageSizeLimit)
    /\ dbQuery = NewQuery(Number(0), Number(pageSizeLimit))
    /\ settled = <<>>
    /\ log = <<>>

\* the for-in loop reaches key k with value v: a key the request has and the
\* loop has not visited yet
Visit(k, v) ==
    /\ pc = "loop"
    /\ k \notin DOMAIN req.query
    /\ Cardinality(DOMAIN req.query) < MaxParams
    /\ req' = [query |-> Put(req.query, k, v)]
    /\ key' = k
    /\ UNCHANGED log

\* a catch inside the loop, which would log the error and go on
CatchAndGoOn(error) ==
    /\ pc' = "loop"
    /\ UNCHANGED <<offset, limit, dbQuery, settled>>

\* a catch that swallows the error and settles nothing
CatchUnsettled(error) ==
    /\ pc' = "rejected"
    /\ UNCHANGED <<offset, limit, dbQuery, settled>>

\* catch (error) { reject([{ msg: error.message }]) }
Catch(error) ==
    /\ pc' = "rejected"
    /\ settled' = Append(settled, [reject |-> <<[msg |-> error.message]>>])
    /\ UNCHANGED <<offset, limit, dbQuery>>

\* the statements of a case ran to its break
Break ==
    /\ pc' = "loop"
    /\ UNCHANGED settled

\* case 'fields'
CaseFields(values) ==
    \E v \in values :
        /\ Visit("fields", v)
        /\ IF v.t = "array"
           THEN Catch(Throw("req.query.fields.split is not a function"))
           ELSE LET fields == StrArray(split(v.text, ","))
                IN /\ dbQuery' = IF Len(fields.el) > 0
                                 THEN Put(dbQuery, "attributes", fields)
                                 ELSE dbQuery
                   /\ UNCHANGED <<offset, limit>>
                   /\ Break

\* a limit below 1 left as it is
CaseLimitNoFloor(values) ==
    \E v \in values :
        /\ Visit("limit", v)
        /\ dbQuery' = Put(dbQuery, "limit", MathMin(parseInt(v), Number(pageSizeLimit)))
        /\ limit' = dbQuery'.limit
        /\ UNCHANGED offset
        /\ Break

\* case 'limit'
CaseLimit(values) ==
    \E v \in values :
        /\ Visit("limit", v)
        /\ dbQuery' = Put(dbQuery, "limit",
                          MathMin(MathMax(parseInt(v), Number(1)), Number(pageSizeLimit)))
        /\ limit' = dbQuery'.limit
        /\ UNCHANGED offset
        /\ Break

\* case 'offset'
CaseOffset(values) ==
    \E v \in values :
        /\ Visit("offset", v)
        /\ offset' = MathMax(parseInt(v), Number(0))
        /\ UNCHANGED <<limit, dbQuery>>
        /\ Break

\* case 'sort_by'
CaseSortBy(values) ==
    \E v \in values :
        /\ Visit("sort_by", v)
        /\ dbQuery' = Put(dbQuery, "order", parseFields(v))
        /\ UNCHANGED <<offset, limit>>
        /\ Break

\* case 'group_by'
CaseGroupBy(values) ==
    \E v \in values :
        /\ Visit("group_by", v)
        /\ dbQuery' = Put(dbQuery, "group", parseFields(v))
        /\ UNCHANGED <<offset, limit>>
        /\ Break

\* the rewritten query assigned to where, not merged into it
CaseQueryAssigned(values) ==
    \E v \in values :
        /\ Visit("query", v)
        /\ \E parsed \in {parseQueryFields(v)} :
              IF parsed.t = "throw" THEN Catch(parsed)
              ELSE /\ dbQuery' = Put(dbQuery, "where", Spread(Obj(<<>>), OwnProperties(parsed)))
                   /\ UNCHANGED <<offset, limit>>
                   /\ Break

\* case 'query'
CaseQuery(values) ==
    \E v \in values :
        /\ Visit("query", v)
        /\ \E parsed \in {parseQueryFields(v)} :
              IF parsed.t = "throw" THEN Catch(parsed)
              ELSE /\ dbQuery' = Put(dbQuery, "where",
                                     Spread(Spread(Obj(<<>>), dbQuery.where.kv),
                                            OwnProperties(parsed)))
                   /\ UNCHANGED <<offset, limit>>
                   /\ Break

\* case 'include'
CaseInclude(values) ==
    \E v \in values :
        /\ Visit("include", v)
        /\ \E parsed \in {parseIncludeFields(v)} :
              IF parsed.t = "throw" THEN Catch(parsed)
              ELSE /\ dbQuery' = Put(dbQuery, "include", parsed)
                   /\ UNCHANGED <<offset, limit>>
                   /\ Break

\* obj[k] = v for a string k: an own property of obj, but for __proto__,
\* which obj inherits a setter for: the setter makes an object v the
\* prototype of obj, ignores any other v, and adds no property
Assign(obj, k, v) == IF k = "__proto__" THEN obj ELSE Set(obj, StrKey(k), v)

\* default: a simple filter
CaseDefault(names, values) ==
    \E k \in names \ ReservedKeys, v \in values :
        /\ Visit(k, v)
        /\ \E param \in {parseQueryParam(v)} :
              IF param.t = "throw" THEN Catch(param)
              ELSE /\ dbQuery' = Put(dbQuery, "where", Assign(dbQuery.where, k, param))
                   /\ UNCHANGED <<offset, limit>>
                   /\ Break

\* the offset parameter taken for a row offset
ResolveRowOffset ==
    /\ pc = "loop"
    /\ dbQuery' = Put(dbQuery, "offset", offset)
    /\ pc' = "resolved"
    /\ settled' = Append(settled, [resolve |-> dbQuery'])
    /\ UNCHANGED <<req, key, offset, limit, log>>

\* the loop has visited every key of req.query:
\* dbQuery.offset = offset * limit; resolve(dbQuery)
Resolve ==
    /\ pc = "loop"
    /\ dbQuery' = Put(dbQuery, "offset", Times(offset, limit))
    /\ pc' = "resolved"
    /\ settled' = Append(settled, [resolve |-> dbQuery'])
    /\ UNCHANGED <<req, key, offset, limit, log>>

\* a dbQuery that all calls share, as one made outside parse would be
CallSharedQuery ==
    /\ pc \in {"resolved", "rejected"}
    /\ Len(log) + 1 < MaxCalls
    /\ log' = Append(log, [query |-> req.query, key |-> key, settled |-> settled])
    /\ pc' = "loop"
    /\ req' = [query |-> <<>>]
    /\ key' = NoKey
    /\ offset' = Number(0)
    /\ limit' = Number(pageSizeLimit)
    /\ dbQuery' = dbQuery
    /\ settled' = <<>>

\* parse is called again, with another req, after a call has returned and
\* its promise is settled: new Promise, let offset, let limit, const dbQuery
Call ==
    /\ pc \in {"resolved", "rejected"}
    /\ Len(log) + 1 < MaxCalls
    /\ log' = Append(log, [query |-> req.query, key |-> key, settled |-> settled])
    /\ pc' = "loop"
    /\ req' = [query |-> <<>>]
    /\ key' = NoKey
    /\ offset' = Number(0)
    /\ limit' = Number(pageSizeLimit)
    /\ dbQuery' = NewQuery(Number(0), Number(pageSizeLimit))
    /\ settled' = <<>>

-----------------------------------------------------------------------------
(* The requests tried *)

\* page sizes and page indices around the limits, as the decimal strings of
\* a query string, and strings that are no integer
LimitInts ==
    ((0 - MaxOver)..(MaxOver + 1))
        \cup ((pageSizeLimit - MaxOver)..(pageSizeLimit + MaxOver))

OffsetInts == (0 - MaxOver)..(MaxOver + 1)

NotIntegers == {<<>>, <<"a">>, <<"-">>}

LimitValues ==
    {StringParam(NumberToText(n)) : n \in LimitInts}
        \cup {StringParam(t) : t \in NotIntegers \cup {<<"1", "0", "p", "x">>, <<" ", "7">>}}

OffsetValues ==
    {StringParam(NumberToText(n)) : n \in OffsetInts}
        \cup {StringParam(t) : t \in NotIntegers}

FieldsValues == {StringParam(<<"id", ",", "name">>), StringParam(<<>>)}

SortByValues == {StringParam(<<"id", ".", "asc", ",", "name", ".", "desc">>)}

GroupByValues == {StringParam(<<"id">>)}

\* {"or":[{"id":1},{"name":"A"}]}
OrQuery ==
    Obj(<< <<StrKey("or"), Arr(<<Obj(<< <<StrKey("id"), Number(1)>> >>),
                                Obj(<< <<StrKey("name"), Str("A")>> >>)>>)>> >>)

\* {"model":"Role","where":{"name":"admin"}}
RoleInclude ==
    Obj(<< <<StrKey("model"), Str("Role")>>,
           <<StrKey("where"), Obj(<< <<StrKey("name"), Str("admin")>> >>)>> >>)

\* texts that are no JSON: {not valid json, a text cut short, one with a
\* stray bracket, the empty text
MalformedJson ==
    {<<"{", "not", " ", "valid", " ", "json">>,
     SubSeq(stringify(OrQuery), 1, Len(stringify(OrQuery)) - 2),
     stringify(RoleInclude) \o <<"]">>,
     <<>>}

QueryValues ==
    {StringParam(t) : t \in {stringify(OrQuery), <<"%7B", "}">>, <<"null">>} \cup MalformedJson}

IncludeValues ==
    {StringParam(t) : t \in {stringify(RoleInclude)} \cup MalformedJson}

FilterNames == {"id", "firstName"}

FilterValues ==
    {StringParam(t) : t \in {<<"gt", ":", "1">>, <<"active">>}}

-----------------------------------------------------------------------------
(* The translation of one request, with every case of the switch *)

Next ==
    \/ CaseFields(FieldsValues)
    \/ CaseLimit(LimitValues)
    \/ CaseOffset(OffsetValues)
    \/ CaseSortBy(SortByValues)
    \/ CaseGroupBy(GroupByValues)
    \/ CaseQuery(QueryValues)
    \/ CaseInclude(IncludeValues)
    \/ CaseDefault(FilterNames, FilterValues)
    \/ Resolve

Spec == Init /\ [][Next]_vars

-----------------------------------------------------------------------------
(* Pagination and the outcome of a call *)

\* the request holds parameter k with the string text as its value
Given(k, text) == k \in DOMAIN req.query /\ req.query[k] = StringParam(text)

\* the call has delivered exactly one descriptor
Returned == pc = "resolved" /\ Len(settled) = 1 /\ DOMAIN settled[1] = {"resolve"}

\* the descriptor delivered
Descriptor == settled[1].resolve

\* d has field name with value v
Field(d, name, v) == name \in DOMAIN d /\ d[name] = v

PageIndices == {p \in OffsetInts : p >= 0}
PageSizes == {n \in LimitInts : 1 <= n /\ n <= pageSizeLimit}

\* n brought into [1, 200]
Clamped(n) == IF n < 1 THEN 1 ELSE IF n > pageSizeLimit THEN pageSizeLimit ELSE n

\* C1: a page index p >= 0 given as offset and a page size s in [1,200]
\* given as limit give a descriptor with offset = p * s and limit = s, in
\* whichever order the two are visited and whatever is visited with them.
C1_PageOffsetIsProduct ==
    Returned =>
        \A p \in PageIndices, s \in PageSizes :
            Given("offset", NumberToText(p)) /\ Given("limit", NumberToText(s))
                => /\ Field(Descriptor, "offset", Number(p * s))
                   /\ Field(Descriptor, "limit", Number(s))

\* page 3 of size 199 with a third parameter, limit visited last
C1_Witness ==
    /\ Returned
    /\ Given("offset", <<"3">>) /\ Given("limit", <<"1", "9", "9">>)
    /\ Cardinality(DOMAIN req.query) = 3
    /\ key = "limit"
    /\ Descriptor.offset = Number(597)

\* C2 as claimed: an integer limit outside [1,200] is clamped to the nearest
\* bound and the clamped value is the page size of the offset product; a
\* negative integer offset gives a descriptor whose offset is 0.
C2_AsClaimed ==
    Returned =>
        /\ \A n \in LimitInts :
               Given("limit", NumberToText(n))
                   => /\ Field(Descriptor, "limit", Number(Clamped(n)))
                      /\ \A p \in PageIndices :
                             Given("offset", NumberToText(p))
                                 => Field(Descriptor, "offset", Number(p * Clamped(n)))
        /\ \A p \in OffsetInts :
               p < 0 /\ Given("offset", NumberToText(p))
                   => Field(Descriptor, "offset", Number(0))

\* C2: the same, the descriptor's offset for a negative page index being 0
\* whenever limit is absent or parses as an integer, and not-a-number when
\* limit does not parse.
C2_ClampedPagination ==
    Returned =>
        /\ \A n \in LimitInts :
               Given("limit", NumberToText(n))
                   => /\ Field(Descriptor, "limit", Number(Clamped(n)))
                      /\ \A p \in PageIndices :
                             Given("offset", NumberToText(p))
                                 => Field(Descriptor, "offset", Number(p * Clamped(n)))
        /\ \A p \in OffsetInts :
               p < 0 /\ Given("offset", NumberToText(p))
                   => /\ offset = Number(0)
                      /\ "limit" \notin DOMAIN req.query
                             \/ (\E n \in LimitInts : Given("limit", NumberToText(n)))
                             => Field(Descriptor, "offset", Number(0))
                      /\ (\E text \in NotIntegers : Given("limit", text))
                             => Field(Descriptor, "offset", NaN)

\* limit 202 is clamped to 200 and multiplies page index 2
C2_Witness ==
    /\ Returned
    /\ Given("limit", <<"2", "0", "2">>) /\ Given("offset", <<"2">>)
    /\ Descriptor.limit = Number(200) /\ Descriptor.offset = Number(400)

\* a negative page index with a limit below 1
C2_WitnessNegative ==
    /\ Returned
    /\ Given("limit", <<"-", "1">>) /\ Given("offset", <<"-", "2">>)
    /\ Descriptor.limit = Number(1) /\ Descriptor.offset = Number(0)

\* C3: without limit and offset the descriptor has limit = 200 and
\* offset = 0; for the empty mapping it has where = {} and none of
\* attributes, order, group, include.
C3_Defaults ==
    Returned =>
        /\ DOMAIN req.query \cap {"limit", "offset"} = {}
               => /\ Field(Descriptor, "limit", Number(200))
                  /\ Field(Descriptor, "offset", Number(0))
        /\ DOMAIN req.query = {}
               => /\ Field(Descriptor, "where", Obj(<<>>))
                  /\ DOMAIN Descriptor \cap {"attributes", "order", "group", "include"} = {}

\* the empty request has been answered
C3_Witness == Returned /\ DOMAIN req.query = {} /\ Descriptor.limit = Number(200)

\* C10: a query or include value that is no JSON text fails the call with
\* one failure value that carries the parser's message, and no descriptor,
\* whatever was visited before it.
C10_MalformedJsonRejects ==
    \A k \in {"query", "include"} :
        k \in DOMAIN req.query /\ req.query[k].t = "string"
            /\ req.query[k].text \in MalformedJson
            => /\ pc = "rejected"
               /\ key = k
               /\ settled = <<[reject |-> <<[msg |-> JSONparse(req.query[k].text).message]>>]>>

\* a malformed include after fields and a filter were visited
C10_Witness ==
    /\ pc = "rejected"
    /\ key = "include"
    /\ req.query[key].text \in MalformedJson
    /\ DOMAIN req.query = {"fields", "id", "include"}
    /\ "attributes" \in DOMAIN dbQuery
    /\ settled[1].reject[1].msg = "Unexpected token not in JSON"

-----------------------------------------------------------------------------
(* Simple filters: one filter over every text of a small alphabet *)

\* the units of the filter texts: a letter, the two delimiters and a line
\* terminator
FilterAlphabet == {"x", ":", ",", "\n"}

\* what a filter text starts with: nothing, an operator name, or a name
\* that is not an operator's
FilterHeads == {<<>>, <<"gt">>, <<"in">>, <<"at">>}

FilterTails == UNION {[1..m -> FilterAlphabet] : m \in 0..MaxTail}

RichFilterValues == {StringParam(h \o t) : h \in FilterHeads, t \in FilterTails}

NextFilter ==
    \/ CaseDefault({"id"}, RichFilterValues)
    \/ CaseDefault({"firstName"}, FilterValues)
    \/ Resolve

SpecFilter == Init /\ [][NextFilter]_vars

\* the text given as filter id
IdText == req.query["id"].text

\* a descriptor was delivered for a request with filter id
IdFiltered == Returned /\ "id" \in DOMAIN req.query

\* what the descriptor holds for filter id
WhereId == Get(Descriptor.where, StrKey("id"))

\* the place of the first ":" of text, 0 if it has none
FirstColon(text) ==
    IF \E i \in 1..Len(text) : text[i] = ":"
    THEN CHOOSE i \in 1..Len(text) : text[i] = ":" /\ \A j \in 1..(i - 1) : text[j] # ":"
    ELSE 0

\* the name before the first ":" of text and the rest after it
NameOf(text) == Join(SubSeq(text, 1, FirstColon(text) - 1))
RestOf(text) == SubSeq(text, FirstColon(text) + 1, Len(text))

Units(text) == {text[i] : i \in 1..Len(text)}

\* the places of the commas of text, and the piece before its j-th comma
\* (the last piece for j one more than the number of commas)
Commas(text) == {i \in 1..Len(text) : text[i] = ","}
CommaAt(text, j) ==
    IF j = 0 THEN 0
    ELSE IF j > Cardinality(Commas(text)) THEN Len(text) + 1
    ELSE CHOOSE i \in Commas(text) : Cardinality({c \in Commas(text) : c < i}) = j - 1
Piece(text, j) == SubSeq(text, CommaAt(text, j - 1) + 1, CommaAt(text, j) - 1)
Pieces(text) == [j \in 1..(Cardinality(Commas(text)) + 1) |-> Str(Join(Piece(text, j)))]

\* a mapping with the one key symbol(op)
Under(op, value) == Obj(<< <<SymKey(op), value>> >>)

\* C4 as claimed: op:v with op an operator name and v non-empty without
\* "," gives where[f] = {symbol(op): v}, v kept a string; a value without
\* ":" gives where[f] = the string itself.
C4_AsClaimed ==
    IdFiltered =>
        /\ FirstColon(IdText) = 0 => WhereId = Str(Join(IdText))
        /\ /\ FirstColon(IdText) > 0
           /\ NameOf(IdText) \in OperatorNames
           /\ RestOf(IdText) # <<>>
           /\ "," \notin Units(RestOf(IdText))
           => WhereId = Under(NameOf(IdText), Str(Join(RestOf(IdText))))

\* what holds of op:v: the same for every v without a line terminator
C4_WithoutLineTerminator ==
    IdFiltered =>
        /\ FirstColon(IdText) = 0 => WhereId = Str(Join(IdText))
        /\ /\ FirstColon(IdText) > 0
           /\ NameOf(IdText) \in OperatorNames
           /\ RestOf(IdText) # <<>>
           /\ "," \notin Units(RestOf(IdText))
           /\ Units(RestOf(IdText)) \cap LineTerminators = {}
           => WhereId = Under(NameOf(IdText), Str(Join(RestOf(IdText))))

\* C5 as claimed: op:v1,...,vn with n >= 2 gives {symbol(op): [v1,...,vn]},
\* the strings in their order; with n = 1 the value under the symbol is the
\* string and not a sequence of one.
C5_AsClaimed ==
        /\ IdFiltered
        /\ FirstColon(IdText) > 0
        /\ NameOf(IdText) \in OperatorNames
        /\ RestOf(IdText) # <<>>
        => WhereId = Under(NameOf(IdText),
                           IF Commas(RestOf(IdText)) # {}
                           THEN Arr(Pieces(RestOf(IdText)))
                           ELSE Str(Join(RestOf(IdText))))

\* what holds of op:v1,...,vn: the same for values without a line terminator
C5_WithoutLineTerminator ==
        /\ IdFiltered
        /\ FirstColon(IdText) > 0
        /\ NameOf(IdText) \in OperatorNames
        /\ RestOf(IdText) # <<>>
        /\ Units(RestOf(IdText)) \cap LineTerminators = {}
        => WhereId = Under(NameOf(IdText),
                           IF Commas(RestOf(IdText)) # {}
                           THEN Arr(Pieces(RestOf(IdText)))
                           ELSE Str(Join(RestOf(IdText))))

\* C6 as claimed: op:rest with op an operator name and one or more ":" in
\* rest stores the whole of rest, or its comma-split, under symbol(op):
\* only the first ":" splits.
C6_AsClaimed ==
        /\ IdFiltered
        /\ FirstColon(IdText) > 0
        /\ NameOf(IdText) \in OperatorNames
        /\ ":" \in Units(RestOf(IdText))
        => /\ IsObject(WhereId)
           /\ Has(WhereId, SymKey(NameOf(IdText)))
           /\ Get(WhereId, SymKey(NameOf(IdText)))
                  = IF Commas(RestOf(IdText)) # {}
                    THEN Arr(Pieces(RestOf(IdText)))
                    ELSE Str(Join(RestOf(IdText)))

\* what holds of op:rest: the same for a rest without a line terminator
C6_WithoutLineTerminator ==
        /\ IdFiltered
        /\ FirstColon(IdText) > 0
        /\ NameOf(IdText) \in OperatorNames
        /\ ":" \in Units(RestOf(IdText))
        /\ Units(RestOf(IdText)) \cap LineTerminators = {}
        => /\ IsObject(WhereId)
           /\ Has(WhereId, SymKey(NameOf(IdText)))
           /\ Get(WhereId, SymKey(NameOf(IdText)))
                  = IF Commas(RestOf(IdText)) # {}
                    THEN Arr(Pieces(RestOf(IdText)))
                    ELSE Str(Join(RestOf(IdText)))

\* C7 as claimed: name:rest with a name that is no operator name is stored
\* as the whole string, never split.
C7_AsClaimed ==
        /\ IdFiltered
        /\ FirstColon(IdText) > 0
        /\ NameOf(IdText) \notin OperatorNames
        => WhereId = Str(Join(IdText))

\* what the code stores for name:rest with a rest that starts without a
\* line terminator: a mapping with the one key "undefined"
C7_UndefinedKey ==
        /\ IdFiltered
        /\ FirstColon(IdText) > 0
        /\ NameOf(IdText) \notin OperatorNames
        /\ RestOf(IdText) # <<>>
        /\ RestOf(IdText)[1] \notin LineTerminators
        => /\ IsObject(WhereId)
           /\ StringKeys(WhereId) = <<"undefined">>

-----------------------------------------------------------------------------
(* The rewrite of operator names in query *)

\* an object with one property; one with the property gt: 1 after it; one
\* whose property holds an array of v and of an object
Obj1(k, v) == Obj(<< <<StrKey(k), v>> >>)
Obj2(k, v) == Obj(<< <<StrKey(k), v>>, <<StrKey("gt"), Number(1)>> >>)
ObjArr(k, v) == Obj1(k, Arr(<<v, Obj1("gt", Number(1))>>))

\* the keys of the objects tried: an operator name, a field name, model,
\* and a field name that Object.prototype has a member for
TreeKeys == {"or", "id", "model", "constructor"}

TreeLeaves == {Number(1), Str("Role"), Null}

\* the JSON values with at most d objects inside one another
RECURSIVE Trees(_)
Trees(d) ==
    IF d = 0 THEN TreeLeaves
    ELSE LET below == Trees(d - 1)
         IN below \cup {Obj1(k, v) : k \in TreeKeys, v \in below}
                  \cup {Obj2(k, v) : k \in {"or", "id"}, v \in below}
                  \cup {ObjArr(k, v) : k \in {"or", "id"}, v \in below}

RichQueryValues ==
    {StringParam(stringify(tree)) : tree \in {v \in Trees(MaxDepth) : v.t = "object"}}

NextQuery ==
    \/ CaseQuery(RichQueryValues)
    \/ CaseDefault({"firstName"}, {StringParam(<<"active">>)})
    \/ Resolve

SpecQuery == Init /\ [][NextQuery]_vars

\* a JSON value as the mapping from its keys to its values, whatever the
\* order of its properties
RECURSIVE AsMap(_)
AsMap(v) ==
    CASE v.t = "object" ->
            [t |-> "map",
             m |-> [k \in {v.kv[i][1] : i \in 1..Len(v.kv)} |-> AsMap(Get(v, k))]]
      [] v.t = "array" -> Arr([i \in 1..Len(v.el) |-> AsMap(v.el[i])])
      [] OTHER -> v

\* the rewritten form of a JSON value as the specification tells it: an
\* operator name gives way to its symbol, any other key stays; the string
\* under model gives way to the entity it names if one is registered, any
\* other scalar stays
ClaimedKey(k) == IF k \in OperatorNames THEN SymKey(k) ELSE StrKey(k)
ClaimedLeaf(k, v) ==
    IF k = "model" /\ v.t = "string" /\ v.s \in ModelNames THEN DbMember(v.s) ELSE v
RECURSIVE Claimed(_)
Claimed(v) ==
    CASE v.t = "object" ->
            [t |-> "map",
             m |-> [k \in {ClaimedKey(name) : name \in {v.kv[i][1][2] : i \in 1..Len(v.kv)}} |->
                       LET name == CHOOSE n \in {v.kv[i][1][2] : i \in 1..Len(v.kv)} :
                                       ClaimedKey(n) = k
                           child == Get(v, StrKey(name))
                       IN IF IsObject(child) THEN Claimed(child) ELSE ClaimedLeaf(name, child)]]
      [] v.t = "array" -> Arr([i \in 1..Len(v.el) |-> Claimed(v.el[i])])
      [] OTHER -> v

\* a mapping with the scalars under model left out of account
RECURSIVE ModelApart(_)
ModelApart(v) ==
    CASE v.t = "map" ->
            [t |-> "map",
             m |-> [k \in DOMAIN v.m |->
                       IF k = StrKey("model") /\ v.m[k].t \notin {"map", "array"}
                       THEN Undefined ELSE ModelApart(v.m[k])]]
      [] v.t = "array" -> Arr([i \in 1..Len(v.el) |-> ModelApart(v.el[i])])
      [] OTHER -> v

\* the JSON object given as query, and whether one was given and merged
QueryGiven == JSONparse(unescapeEscapedQuery(req.query["query"]))
QueryMerged == Returned /\ "query" \in DOMAIN req.query

\* C8 as claimed: after the rewrite of the object given as query, every key
\* at every depth that is an operator name is its symbol and carries the
\* rewritten form of its value; every key that is no operator name and not
\* model, and every scalar leaf, is unchanged.
C8_AsClaimed ==
    QueryMerged =>
        LET claimed == ModelApart(Claimed(QueryGiven))
            where == ModelApart(AsMap(Descriptor.where))
        IN \A k \in DOMAIN claimed.m :
               k \in DOMAIN where.m /\ where.m[k] = claimed.m[k]

\* whether a name that Object.prototype has a member for is a key in v
RECURSIVE HasInheritedKey(_)
HasInheritedKey(v) ==
    CASE v.t = "object" ->
            \E i \in 1..Len(v.kv) :
                v.kv[i][1][2] \in ObjectPrototypeNames \/ HasInheritedKey(v.kv[i][2])
      [] v.t = "array" -> \E i \in 1..Len(v.el) : HasInheritedKey(v.el[i])
      [] OTHER -> FALSE

\* what holds of the rewrite: the same for the objects none of whose keys
\* is the name of a member of Object.prototype
C8_WithoutInheritedKeys ==
    QueryMerged /\ ~HasInheritedKey(QueryGiven) =>
        LET claimed == ModelApart(Claimed(QueryGiven))
            where == ModelApart(AsMap(Descriptor.where))
        IN \A k \in DOMAIN claimed.m :
               k \in DOMAIN where.m /\ where.m[k] = claimed.m[k]

-----------------------------------------------------------------------------
(* The rewrite of include trees *)

\* the names tried under model: two registered entities, a name db has
\* nothing for, and Sequelize, which db has but which is no entity
IncludeModels == {"Role", "UserRole", "Ghost", "Sequelize"}

\* the where objects tried, <<>> standing for an include without where
IncludeWheres ==
    {<<>>,
     << <<StrKey("where"), Obj1("name", Str("admin"))>> >>,
     << <<StrKey("where"), OrQuery>> >>}

\* the include trees with at most d includes inside one another
RECURSIVE IncludeTrees(_)
IncludeTrees(d) ==
    IF d = 0 THEN {}
    ELSE LET below == IncludeTrees(d - 1)
             nested == {<<>>} \cup {<< <<StrKey("include"), t>> >> : t \in below}
         IN {Obj(<< <<StrKey("model"), Str(m)>>, <<StrKey("as"), Str("role")>> >>
                 \o inc \o << <<StrKey("required"), Number(1)>> >> \o w) :
                 m \in IncludeModels, inc \in nested, w \in IncludeWheres}

RichIncludeValues ==
    {StringParam(stringify(t)) : t \in IncludeTrees(MaxNest)}
        \cup {StringParam(stringify(Arr(<<t>>))) : t \in IncludeTrees(MaxNest)}

NextInclude ==
    \/ CaseInclude(RichIncludeValues)
    \/ CaseDefault({"firstName"}, {StringParam(<<"active">>)})
    \/ Resolve

SpecInclude == Init /\ [][NextInclude]_vars

\* the JSON tree given as include, and whether one was given and assigned
IncludeGiven == JSONparse(unescapeEscapedQuery(req.query["include"]))
IncludeAssigned == Returned /\ "include" \in DOMAIN req.query

\* C9 as claimed: the descriptor's include is the rewritten tree as a
\* whole: at every level model holds the handle of the registered entity
\* its string names, a model value that names no registered entity stays
\* the string, the operator names in nested where objects are symbols, and
\* as, required and field names keep their values.
C9_AsClaimed ==
    IncludeAssigned =>
        /\ "include" \in DOMAIN Descriptor
        /\ AsMap(Descriptor.include) = Claimed(IncludeGiven)

\* whether a model in v names a member of db that is no registered entity
RECURSIVE NamesOtherMember(_)
NamesOtherMember(v) ==
    CASE v.t = "object" ->
            \E i \in 1..Len(v.kv) :
                \/ /\ v.kv[i][1] = StrKey("model")
                   /\ ~IsObject(v.kv[i][2])
                   /\ ScalarName(v.kv[i][2]) \notin ModelNames
                   /\ db(ScalarName(v.kv[i][2])).t \notin {"undefined", "null"}
                \/ NamesOtherMember(v.kv[i][2])
      [] v.t = "array" -> \E i \in 1..Len(v.el) : NamesOtherMember(v.el[i])
      [] OTHER -> FALSE

\* what holds of include: the same for the trees whose model values name a
\* registered entity or nothing that db has
C9_WithoutOtherMembers ==
    IncludeAssigned /\ ~NamesOtherMember(IncludeGiven) =>
        /\ "include" \in DOMAIN Descriptor
        /\ AsMap(Descriptor.include) = Claimed(IncludeGiven)

-----------------------------------------------------------------------------
(* Calls of parse one after another *)

\* Two parameter names are tried, so that req.query and the key visited
\* last tell the order in which the loop visited the parameters.
NextCalls ==
    \/ CaseOffset({StringParam(<<"3">>)})
    \/ CaseQuery({StringParam(t) : t \in {stringify(OrQuery), <<"{", "not", " ", "valid", " ", "json">>}})
    \/ Resolve
    \/ Call

SpecCalls == Init /\ [][NextCalls]_vars

\* the call in progress has returned and its promise is settled
Settled == pc \in {"resolved", "rejected"}

\* the calls that have returned, the one in progress last if it has
Calls ==
    IF Settled THEN Append(log, [query |-> req.query, key |-> key, settled |-> settled])
    ELSE log

\* C11: two calls given the same parameter mapping settle their promises
\* with the same descriptor or the same failure, whatever calls came before
\* or between them; and no step of a call changes the value req.query
\* holds for a parameter. (The operator table is a constant of the module:
\* no statement assigns to operators or to a property of it.)
C11_Deterministic ==
    /\ [](\A i, j \in 1..Len(Calls) :
              Calls[i].query = Calls[j].query /\ Calls[i].key = Calls[j].key
                  => Calls[i].settled = Calls[j].settled)
    /\ [][pc = "loop" =>
              \A k \in DOMAIN req.query :
                  k \in DOMAIN req'.query /\ req'.query[k] = req.query[k]]_vars

\* offset=3&query=... translated a second time with a call of another
\* mapping between the two
C11_Witness ==
    /\ Len(log) = 2
    /\ pc = "resolved"
    /\ DOMAIN req.query = {"offset", "query"}
    /\ log[1].query = req.query /\ log[1].key = key
    /\ log[2].query # req.query
    /\ log[1].settled = settled
    /\ settled[1].resolve.offset = Number(600)

-----------------------------------------------------------------------------
(* Field lists: sort_by and group_by over every text of a small alphabet *)

FieldAlphabet == {"a", ",", "."}

FieldTexts(n) == UNION {[1..m -> FieldAlphabet] : m \in 0..n}

\* sort_by given once, and given twice; Role.name.desc,id
RichSortByValues ==
    {StringParam(t) : t \in FieldTexts(MaxField)}
        \cup {ArrayParam(<<t, u>>) : t, u \in FieldTexts(MaxField - 1)}
        \cup {StringParam(<<"Role", ".", "name", ".", "desc", ",", "id">>)}

\* group_by given once, and given twice
RichGroupByValues ==
    {StringParam(<<"id">>), StringParam(<<"a", ".", "a", ",", ",", "id">>),
     ArrayParam(<< <<"id", ",", "a", ".">>, <<"a">> >>)}

NextFields ==
    \/ CaseSortBy(RichSortByValues)
    \/ CaseGroupBy(RichGroupByValues)
    \/ Resolve

SpecFields == Init /\ [][NextFields]_vars

\* the places of sep in text, the place of its j-th sep (0 for j = 0, past
\* the end for j beyond the last), and the parts of text that the seps part
Places(text, sep) == {i \in 1..Len(text) : text[i] = sep}
PlaceAt(text, sep, j) ==
    IF j = 0 THEN 0
    ELSE IF j > Cardinality(Places(text, sep)) THEN Len(text) + 1
    ELSE CHOOSE i \in Places(text, sep) :
             Cardinality({c \in Places(text, sep) : c < i}) = j - 1
Parts(text, sep) ==
    [j \in 1..(Cardinality(Places(text, sep)) + 1) |->
        SubSeq(text, PlaceAt(text, sep, j - 1) + 1, PlaceAt(text, sep, j) - 1)]

\* one tuple per comma-separated token of text: the token's parts between
\* its "."
TuplesOf(text) ==
    [j \in 1..Len(Parts(text, ",")) |-> StrArray(Parts(Parts(text, ",")[j], "."))]

\* the tuples of a parameter: those of the string, or those of the strings
\* of a sequence one after another
RECURSIVE TuplesOfAll(_)
TuplesOfAll(items) ==
    IF items = <<>> THEN <<>> ELSE TuplesOf(Head(items)) \o TuplesOfAll(Tail(items))
TuplesGiven(value) ==
    IF value.t = "array" THEN TuplesOfAll(value.items) ELSE TuplesOf(value.text)

\* C12 as claimed: order (of sort_by) and group (of group_by) hold one
\* tuple per comma-separated token, in input order, the tokens of the
\* strings of a sequence one after another; each tuple is the token split
\* on "." into a pair, [field, qualifier] when a qualifier is present and
\* [field] otherwise.
C12_AsClaimed ==
    Returned =>
        /\ "sort_by" \in DOMAIN req.query
               => /\ Field(Descriptor, "order", Arr(TuplesGiven(req.query["sort_by"])))
                  /\ \A i \in 1..Len(Descriptor.order.el) :
                         Len(Descriptor.order.el[i].el) \in {1, 2}
        /\ "group_by" \in DOMAIN req.query
               => /\ Field(Descriptor, "group", Arr(TuplesGiven(req.query["group_by"])))
                  /\ \A i \in 1..Len(Descriptor.group.el) :
                         Len(Descriptor.group.el[i].el) \in {1, 2}

\* C12: order (of sort_by) and group (of group_by) hold one tuple per
\* comma-separated token, in input order, the tokens of the strings of a
\* sequence one after another; a tuple is its token split on every ".": a
\* token with n "." gives n + 1 strings, [field, qualifier] for n = 1 and
\* [field] for n = 0.
C12_FieldTuples ==
    Returned =>
        /\ "sort_by" \in DOMAIN req.query
               => Field(Descriptor, "order", Arr(TuplesGiven(req.query["sort_by"])))
        /\ "group_by" \in DOMAIN req.query
               => Field(Descriptor, "group", Arr(TuplesGiven(req.query["group_by"])))

\* sort_by=Role.name.desc,id gives a tuple of three and a tuple of one
C12_WitnessThree ==
    /\ Returned
    /\ DOMAIN req.query = {"sort_by"}
    /\ req.query["sort_by"] = StringParam(<<"Role", ".", "name", ".", "desc", ",", "id">>)
    /\ Descriptor.order = Arr(<<Arr(<<Str("Role"), Str("name"), Str("desc")>>),
                                Arr(<<Str("id")>>)>>)

\* sort_by=a.&sort_by=,a with group_by given twice
C12_Witness ==
    /\ Returned
    /\ DOMAIN req.query = {"sort_by", "group_by"}
    /\ req.query["sort_by"] = ArrayParam(<< <<"a", ".">>, <<",", "a">> >>)
    /\ Descriptor.order = Arr(<<Arr(<<Str("a"), Str("")>>), Arr(<<Str("")>>), Arr(<<Str("a")>>)>>)
    /\ req.query["group_by"].t = "array"
    /\ Len(Descriptor.group.el) = 3

-----------------------------------------------------------------------------
(* Simple filters among the other parameters *)

\* {"or":1}, a filter value that looks like JSON
JsonLikeFilter == stringify(Obj1("or", Number(1)))

\* {"id":{"gt":1},"or":[{"name":"A"}]}, a query with an entry for a field
\* that a simple filter names too
IdQuery ==
    Obj(<< <<StrKey("id"), Obj1("gt", Number(1))>>,
           <<StrKey("or"), Arr(<<Obj1("name", Str("A"))>>)>> >>)

NextFrame ==
    \/ CaseFields({StringParam(<<"id", ",", "name">>)})
    \/ CaseLimit({StringParam(<<"5">>)})
    \/ CaseOffset({StringParam(<<"2">>)})
    \/ CaseSortBy(SortByValues)
    \/ CaseGroupBy(GroupByValues)
    \/ CaseQuery({StringParam(stringify(OrQuery)), StringParam(stringify(IdQuery))})
    \/ CaseInclude({StringParam(stringify(RoleInclude))})
    \/ CaseDefault({"id", "firstName", "__proto__"},
                   FilterValues \cup {StringParam(JsonLikeFilter)})
    \/ Resolve

SpecFrame == Init /\ [][NextFrame]_vars

\* the parse of a filter text by the grammar of filter expressions: split
\* on the first ":"; an operator name before it gives {symbol: value}, the
\* value comma-split if it holds a ","; anything else is the string itself
FilterExpression(text) ==
    IF FirstColon(text) > 0 /\ NameOf(text) \in OperatorNames
    THEN Under(NameOf(text),
               IF Commas(RestOf(text)) # {} THEN Arr(Pieces(RestOf(text)))
               ELSE Str(Join(RestOf(text))))
    ELSE Str(Join(text))

\* the step visits a parameter that is no reserved name, with a string value
FilterStep ==
    /\ pc = "loop"
    /\ req' # req
    /\ key' \in DOMAIN req'.query
    /\ key' \notin ReservedKeys
    /\ req'.query[key'].t = "string"

\* the step leaves alone every where entry but that of key', and every
\* other descriptor field, the limit and the page index
FilterFrame ==
    /\ pc' = "loop"
    /\ \A i \in 1..Len(dbQuery.where.kv) :
           LET k == dbQuery.where.kv[i][1]
           IN k # StrKey(key') =>
                  Has(dbQuery'.where, k) /\ Get(dbQuery'.where, k) = Get(dbQuery.where, k)
    /\ \A i \in 1..Len(dbQuery'.where.kv) :
           LET k == dbQuery'.where.kv[i][1]
           IN k = StrKey(key') \/ Has(dbQuery.where, k)
    /\ DOMAIN dbQuery' = DOMAIN dbQuery
    /\ \A f \in DOMAIN dbQuery \ {"where"} : dbQuery'[f] = dbQuery[f]
    /\ offset' = offset /\ limit' = limit

\* C13 as claimed: a parameter name k that is no reserved name, with a
\* string value v, is a simple filter: where[k] becomes the parse of v as a
\* filter expression, v is not parsed as JSON nor rewritten even when it
\* looks like JSON, and every other where entry and every other descriptor
\* field, the limit and the page index stay as they were.
C13_AsClaimed ==
    [][FilterStep =>
           /\ Has(dbQuery'.where, StrKey(key'))
           /\ Get(dbQuery'.where, StrKey(key')) = FilterExpression(req'.query[key'].text)
           /\ FilterFrame]_vars

\* what holds of a simple filter: the frame for every name, and for every
\* name but __proto__ a where[k] that is the result of parseQueryParam
C13_Frame ==
    [][FilterStep =>
           /\ FilterFrame
           /\ key' # "__proto__" =>
                  /\ Has(dbQuery'.where, StrKey(key'))
                  /\ Get(dbQuery'.where, StrKey(key')) = parseQueryParam(req'.query[key'])
           /\ key' = "__proto__" => dbQuery'.where = dbQuery.where]_vars

-----------------------------------------------------------------------------
(* The merge of query into where *)

\* the step visits query, and its value is parsed and rewritten
QueryStep ==
    /\ pc = "loop"
    /\ req' # req
    /\ key' = "query"
    /\ pc' = "loop"

\* the keys of the entries of an object
KeysOf(obj) == {obj.kv[i][1] : i \in 1..Len(obj.kv)}

\* C14: after query is processed where holds every top-level entry of the
\* rewritten query, those under an operator symbol too; an entry written
\* earlier under a key of the query is overwritten; an entry written
\* earlier under any other key is kept; and a simple filter processed after
\* query replaces its own where entry only.
C14_QueryMerged ==
    [][/\ QueryStep =>
              LET rewritten == parseQueryFields(req'.query["query"])
              IN /\ \A k \in KeysOf(rewritten) :
                        Has(dbQuery'.where, k)
                            /\ Get(dbQuery'.where, k) = Get(rewritten, k)
                 /\ \A k \in KeysOf(dbQuery.where) \ KeysOf(rewritten) :
                        Has(dbQuery'.where, k)
                            /\ Get(dbQuery'.where, k) = Get(dbQuery.where, k)
                 /\ KeysOf(dbQuery'.where) = KeysOf(dbQuery.where) \cup KeysOf(rewritten)
       /\ FilterStep /\ "query" \in DOMAIN req.query =>
              \A k \in KeysOf(dbQuery.where) \ {StrKey(key')} :
                  Has(dbQuery'.where, k)
                      /\ Get(dbQuery'.where, k) = Get(dbQuery.where, k)]_vars

\* id=active and firstName=gt:1, then the query with entries id and or:
\* the query's id has replaced the filter's, firstName is kept, or is
\* there under its symbol
C14_Witness ==
    /\ pc = "loop"
    /\ key = "query"
    /\ DOMAIN req.query = {"id", "firstName", "query"}
    /\ req.query["id"] = StringParam(<<"active">>)
    /\ req.query["firstName"] = StringParam(<<"gt", ":", "1">>)
    /\ KeysOf(dbQuery.where) = {StrKey("id"), StrKey("firstName"), SymKey("or")}
    /\ Get(dbQuery.where, StrKey("id")) = Under("gt", Number(1))
    /\ Get(dbQuery.where, StrKey("firstName")) = Under("gt", Str("1"))

-----------------------------------------------------------------------------
(* Operator names among the keys of where and include *)

\* the filter names tried: two operator names
KeyFilterNames == {"or", "gt"}

\* the queries tried: the shallower trees and two with or inside or
KeyQueryValues ==
    {StringParam(stringify(tree)) :
        tree \in {v \in Trees(MaxDepth - 1) : v.t = "object"}
                     \cup {Obj1("or", ObjArr("or", Number(1))), IdQuery}}

\* the includes tried: one entity, without where and with each where
KeyIncludeValues ==
    {StringParam(stringify(Obj(<< <<StrKey("model"), Str("Role")>> >> \o w))) :
        w \in IncludeWheres}

NextKeys ==
    \/ CaseQuery(KeyQueryValues)
    \/ CaseInclude(KeyIncludeValues)
    \/ CaseDefault(KeyFilterNames, FilterValues)
    \/ Resolve

SpecKeys == Init /\ [][NextKeys]_vars

\* whether some key of v, at any depth, is the string of an operator name
RECURSIVE HasOperatorNameKey(_)
HasOperatorNameKey(v) ==
    CASE v.t = "object" ->
            \E i \in 1..Len(v.kv) :
                \/ \E n \in OperatorNames : v.kv[i][1] = StrKey(n)
                \/ HasOperatorNameKey(v.kv[i][2])
      [] v.t = "array" -> \E i \in 1..Len(v.el) : HasOperatorNameKey(v.el[i])
      [] OTHER -> FALSE

\* C15 as claimed: in a returned descriptor no key at any depth of where
\* or include is the string of an operator name, also when it is the name
\* of a simple filter parameter.
C15_AsClaimed ==
    Returned =>
        /\ ~HasOperatorNameKey(Descriptor.where)
        /\ "include" \in DOMAIN Descriptor => ~HasOperatorNameKey(Descriptor.include)

\* C15: in a returned descriptor no key at any depth of include is the
\* string of an operator name, and none at any depth of where but a
\* top-level key that is the name of a simple filter parameter of the
\* request, which is stored under that name as a string.
C15_OperatorKeysAreSymbols ==
    Returned =>
        /\ \A i \in 1..Len(Descriptor.where.kv) :
               LET k == Descriptor.where.kv[i][1]
               IN /\ (\E n \in OperatorNames : k = StrKey(n)) =>
                         \E n \in DOMAIN req.query \ ReservedKeys : k = StrKey(n)
                  /\ ~HasOperatorNameKey(Descriptor.where.kv[i][2])
        /\ "include" \in DOMAIN Descriptor => ~HasOperatorNameKey(Descriptor.include)

\* or=active, gt=gt:1 and a query with or inside or: where holds the
\* string keys or and gt of the filters and the symbol or of the query
C15_Witness ==
    /\ Returned
    /\ DOMAIN req.query = {"or", "gt", "query"}
    /\ req.query["query"] = StringParam(stringify(Obj1("or", ObjArr("or", Number(1)))))
    /\ KeysOf(Descriptor.where) = {StrKey("or"), StrKey("gt"), SymKey("or")}
    /\ Get(Descriptor.where, SymKey("or"))
           = Obj(<< <<SymKey("or"), Arr(<<Number(1), Under("gt", Number(1))>>)>> >>)

-----------------------------------------------------------------------------
(* A limit or an offset that is no integer *)

\* the step visits limit or offset with a text that starts with no integer
NotIntegerStep ==
    /\ pc = "loop"
    /\ req' # req
    /\ key' \in {"limit", "offset"}
    /\ req'.query[key'] \in {StringParam(t) : t \in NotIntegers}

\* C16: a limit or an offset that starts with no integer does not fail
\* the call: its step goes on with the loop, settles nothing and changes no
\* descriptor field but limit; the descriptor delivered has the fields
\* built in the loop and an offset that is NaN, and for such a limit a
\* limit that is NaN as well.
C16_NotANumber ==
    /\ [](Returned =>
            \A t \in NotIntegers :
                /\ Given("limit", t) =>
                       /\ Field(Descriptor, "limit", NaN)
                       /\ Field(Descriptor, "offset", NaN)
                /\ Given("offset", t) => Field(Descriptor, "offset", NaN))
    /\ [][/\ NotIntegerStep =>
                 /\ pc' = "loop"
                 /\ settled' = settled
                 /\ DOMAIN dbQuery' = DOMAIN dbQuery
                 /\ \A f \in DOMAIN dbQuery \ {"limit"} : dbQuery'[f] = dbQuery[f]
          /\ pc = "loop" /\ pc' = "resolved" =>
                 /\ DOMAIN settled'[1].resolve = DOMAIN dbQuery
                 /\ \A f \in DOMAIN dbQuery \ {"offset"} :
                        settled'[1].resolve[f] = dbQuery[f]]_vars

\* limit=a with fields=id,name and a third parameter: the call returns a
\* descriptor with the attributes and with limit and offset NaN
C16_Witness ==
    /\ Returned
    /\ Cardinality(DOMAIN req.query) = 3
    /\ Given("limit", <<"a">>)
    /\ Given("fields", <<"id", ",", "name">>)
    /\ Descriptor.limit = NaN
    /\ Descriptor.offset = NaN
    /\ Descriptor.attributes = Arr(<<Str("id"), Str("name")>>)

-----------------------------------------------------------------------------
(* Parameters given more than once: values that are arrays of strings *)

\* the two texts that, joined by ",", spell {"id":[1,2]}
SplitJson ==
    ArrayParam(<< <<"{", "\"", "id", "\"", ":", "[", "1">>, <<"2", "]", "}">> >>)

\* the values tried for each parameter: strings and arrays of strings
ArrayFieldsValues ==
    {StringParam(<<"id", ",", "name">>), ArrayParam(<< <<"id">>, <<"name">> >>)}
ArrayLimitValues ==
    {StringParam(<<"5">>), ArrayParam(<< <<"5">>, <<"7">> >>)}
ArrayOffsetValues ==
    {StringParam(<<"2">>), ArrayParam(<< <<"2">>, <<"3">> >>)}
ArraySortByValues ==
    {StringParam(<<"name", ".", "desc">>), ArrayParam(<< <<"name", ".", "desc">>, <<"id">> >>)}
ArrayGroupByValues ==
    {StringParam(<<"name">>), ArrayParam(<< <<"name">>, <<"id">> >>)}
ArrayQueryValues ==
    {StringParam(<<"null">>), SplitJson, ArrayParam(<<stringify(OrQuery), stringify(IdQuery)>>)}
ArrayIncludeValues ==
    {ArrayParam(<<stringify(RoleInclude), stringify(RoleInclude)>>),
     ArrayParam(<< <<"[">> \o stringify(RoleInclude), stringify(RoleInclude) \o <<"]">> >>)}
ArrayFilterValues ==
    {StringParam(<<"gt", ":", "1">>), ArrayParam(<< <<"gt", ":", "1">>, <<"active">> >>)}

NextArrays ==
    \/ CaseFields(ArrayFieldsValues)
    \/ CaseLimit(ArrayLimitValues)
    \/ CaseOffset(ArrayOffsetValues)
    \/ CaseSortBy(ArraySortByValues)
    \/ CaseGroupBy(ArrayGroupByValues)
    \/ CaseQuery(ArrayQueryValues)
    \/ CaseInclude(ArrayIncludeValues)
    \/ CaseDefault({"id"}, ArrayFilterValues)
    \/ Resolve

\* the executor of the promise runs to its end: the loop goes on to the
\* next key or, after the last, to resolve
SpecArrays == Init /\ [][NextArrays]_vars /\ WF_vars(NextArrays)

\* the call has delivered exactly one failure, which carries a message
Failed ==
    /\ pc = "rejected"
    /\ Len(settled) = 1
    /\ DOMAIN settled[1] = {"reject"}
    /\ Len(settled[1].reject) = 1
    /\ settled[1].reject[1].msg # ""

\* C17: with values that are strings or arrays of strings, for whichever
\* parameter, a call ends with exactly one outcome: while the loop runs
\* nothing is delivered, then one descriptor or one failure with a
\* message is, nothing is delivered after it, and the call does end.
C17_OneOutcome ==
    /\ [](/\ pc \in {"loop", "resolved", "rejected"}
          /\ pc = "loop" => settled = <<>>
          /\ pc = "resolved" => Returned
          /\ pc = "rejected" => Failed)
    /\ [][settled # <<>> => settled' = settled]_vars
    /\ <>(Returned \/ Failed)

\* fields given twice after a limit given twice: the call fails with the
\* message of the TypeError
C17_Witness ==
    /\ Failed
    /\ DOMAIN req.query = {"limit", "fields"}
    /\ req.query["limit"].t = "array"
    /\ req.query["fields"].t = "array"
    /\ key = "fields"
    /\ settled[1].reject[1].msg = "req.query.fields.split is not a function"

-----------------------------------------------------------------------------
(* The values of model in query and in include *)

\* the names tried under model: a registered entity, Sequelize, a member
\* db inherits, and a name db has nothing for
ModelsTried == {"Role", "Sequelize", "constructor", "Ghost"}

\* model at the top of a query and inside an operator's array
ModelQueryValues ==
    {StringParam(stringify(t)) :
        t \in {Obj1("model", Str(m)) : m \in ModelsTried}
                  \cup {ObjArr("or", Obj1("model", Str(m))) : m \in ModelsTried}}

NextModels ==
    \/ CaseQuery(ModelQueryValues)
    \/ CaseInclude({StringParam(stringify(t)) : t \in IncludeTrees(MaxNest)})
    \/ Resolve

SpecModels == Init /\ [][NextModels]_vars

\* the scalar values the objects of v hold under model, at any depth
RECURSIVE ModelValues(_)
ModelValues(v) ==
    CASE v.t = "object" ->
            UNION {(IF v.kv[i][1] = StrKey("model") /\ ~IsObject(v.kv[i][2])
                    THEN {v.kv[i][2]} ELSE {})
                       \cup ModelValues(v.kv[i][2]) : i \in 1..Len(v.kv)}
      [] v.t = "array" -> UNION {ModelValues(v.el[i]) : i \in 1..Len(v.el)}
      [] OTHER -> {}

\* the model values of given after a rewrite that resolves the names in
\* the set names and leaves every other value as it is
Resolved(given, names) ==
    {IF m.t = "string" /\ m.s \in names THEN db(m.s) ELSE m : m \in ModelValues(given)}

\* the names db has a member for, its own or inherited
MemberNames == {n \in ModelsTried \cup IncludeModels : db(n).t \notin {"undefined", "null"}}

\* C18 as claimed: the rewrite replaces a scalar model value only when the
\* string names a registered entity; a string that names another member of
\* db, or nothing, stays the string, in include and in query alike.
C18_AsClaimed ==
    Returned =>
        /\ "query" \in DOMAIN req.query =>
               ModelValues(Descriptor.where) = Resolved(QueryGiven, ModelNames)
        /\ "include" \in DOMAIN req.query =>
               ModelValues(Descriptor.include) = Resolved(IncludeGiven, ModelNames)

\* what the rewrite does: it replaces a model value by the member of db of
\* that name, whatever the member is
C18_AnyMember ==
    Returned =>
        /\ "query" \in DOMAIN req.query =>
               ModelValues(Descriptor.where) = Resolved(QueryGiven, MemberNames)
        /\ "include" \in DOMAIN req.query =>
               ModelValues(Descriptor.include) = Resolved(IncludeGiven, MemberNames)

-----------------------------------------------------------------------------
(* The walk of iterativeReplace over the keys of a tree *)

\* the keys replaceKeyWithOperator gives constructor and __proto__
ObjectText == "function Object() { [native code] }"
PrototypeText == "[object Object]"

\* trees that hold a key together with the key it is renamed to
\* {"constructor":1,"function Object() { [native code] }":2}
\* {"__proto__":{"id":1},"[object Object]":{"gt":1}}
\* {"or":[{"constructor":1,"function Object() { [native code] }":2}]}
RenamedOnto ==
    {Obj(<< <<StrKey("constructor"), Number(1)>>, <<StrKey(ObjectText), Number(2)>> >>),
     Obj(<< <<StrKey("__proto__"), Obj1("id", Number(1))>>,
            <<StrKey(PrototypeText), Obj1("gt", Number(1))>> >>),
     Obj1("or", Arr(<<Obj(<< <<StrKey("constructor"), Number(1)>>,
                             <<StrKey(ObjectText), Number(2)>> >>)>>))}

WalkQueryValues ==
    RichQueryValues \cup {StringParam(stringify(tree)) : tree \in RenamedOnto}

NextWalk ==
    \/ CaseQuery(WalkQueryValues)
    \/ Resolve

SpecWalk == Init /\ [][NextWalk]_vars

\* the number of objects and arrays in v, at any depth, that have n entries
RECURSIVE Sized(_, _)
RECURSIVE SizedAll(_, _)
SizedAll(values, n) ==
    IF values = <<>> THEN 0 ELSE Sized(Head(values), n) + SizedAll(Tail(values), n)

Sized(v, n) ==
    CASE v.t = "object" ->
            (IF Len(v.kv) = n THEN 1 ELSE 0)
                + SizedAll([i \in 1..Len(v.kv) |-> v.kv[i][2]], n)
      [] v.t = "array" -> (IF Len(v.el) = n THEN 1 ELSE 0) + SizedAll(v.el, n)
      [] OTHER -> 0

\* the sizes an object or array of the trees tried can have
Sizes == 0..3

\* the call was given query alone and has returned: where holds the
\* entries of the rewritten tree and no other
Walked == Returned /\ DOMAIN req.query = {"query"}

\* C19 as claimed: the walk ends, and every object and array of the tree
\* has as many entries after it as before: no key is lost by the delete
\* and re-insert of another.
C19_AsClaimed ==
    Walked => \A n \in Sizes : Sized(Descriptor.where, n) = Sized(QueryGiven, n)

\* what holds of the walk: the same for the trees none of whose keys is
\* the name of a member of Object.prototype
C19_WithoutInheritedKeys ==
    Walked /\ ~HasInheritedKey(QueryGiven) =>
        \A n \in Sizes : Sized(Descriptor.where, n) = Sized(QueryGiven, n)

====
